---- MODULE Spec2Model ----
(***************************************************************************)
(* A model of awsshell/app.py: the AWSShell engine.  The read/dispatch     *)
(* loop of run(), the lazily (re)built interface behind the `cli`          *)
(* property, the setting accessors with their stop-input-and-refresh       *)
(* protocol, and the idle-timeout documentation update.                    *)
(*                                                                         *)
(* Text is modelled as a sequence of one-character strings, so that        *)
(* strip(), startswith(), slicing, join() and concatenation are computed   *)
(* as Python computes them.                                                *)
(***************************************************************************)
EXTENDS Integers, Sequences, FiniteSets, TLC

VARIABLES
    pc,               \* where run() is: "loop", "reading", "raised", "waiting", "returned", "crashed"
    exc,              \* the exception in flight or that ended run(): "none", "InputInterrupt", ...
    cause,            \* why run() returned: "none", "quit", "signal"
    config_section,   \* self.config_section: the in-memory settings
    config_file,      \* what config_obj.write() last put in the persisted store
    model_completer,  \* self.model_completer.match_fuzzy
    cli_obj,          \* self._cli: the interface instance held (id 0: None)
    key_manager,      \* self.key_manager: the id of the KeyManager held (0: not yet set)
    refresh_cli,      \* self.refresh_cli
    builds,           \* how many interface instances have been constructed
    history,          \* self.history
    text,             \* the local `text` of run(): the last submitted line
    all_commands,     \* the local `all_commands` of run(): unbound until a .edit line
    tmpfile,          \* the NamedTemporaryFile of the .edit branch
    proc,             \* the subprocess run() launched and is blocked on
    current_docs,     \* self.current_docs,
    plain_written,    \* settings written without refresh_ui since the last call with refresh_ui
    pending,          \* the accessor call whose InputInterrupt run() is handling
    lines_read,       \* how many lines cli.run() has returned
    ev                \* the effects of the last step, in order: builds, redraws, panel
                      \* resets, files written, processes launched, exceptions raised

vars == <<pc, exc, cause, config_section, config_file, model_completer, cli_obj,
          key_manager, refresh_cli, builds, history, text, all_commands, tmpfile,
          proc, current_docs, plain_written, pending, lines_read, ev>>

(***************************************************************************)
(* Bounds of the model.                                                    *)
(***************************************************************************)
MaxLines == 2
MaxBuilds == 2

(***************************************************************************)
(* Text.                                                                   *)
(***************************************************************************)
EmptyText == << >>
Whitespace == {" ", "\t", "\n"}

RECURSIVE lstrip(_)
lstrip(s) == IF s # << >> /\ Head(s) \in Whitespace THEN lstrip(Tail(s)) ELSE s

RECURSIVE rstrip(_)
rstrip(s) ==
    IF s # << >> /\ s[Len(s)] \in Whitespace THEN rstrip(SubSeq(s, 1, Len(s) - 1)) ELSE s

strip(s) == rstrip(lstrip(s))

startswith(s, prefix) ==
    Len(s) >= Len(prefix) /\ SubSeq(s, 1, Len(prefix)) = prefix

\* s[1:]
slice_from_1(s) == IF s = << >> THEN << >> ELSE Tail(s)

\* str.split(): the maximal runs of non-whitespace characters
RECURSIVE split_acc(_, _, _)
split_acc(s, word, words) ==
    IF s = << >>
    THEN IF word = << >> THEN words ELSE Append(words, word)
    ELSE IF Head(s) \in Whitespace
         THEN split_acc(Tail(s), << >>, IF word = << >> THEN words ELSE Append(words, word))
         ELSE split_acc(Tail(s), Append(word, Head(s)), words)

split(s) == split_acc(s, << >>, << >>)

\* sep.join(parts)
RECURSIVE join(_, _)
join(sep, parts) ==
    IF parts = << >> THEN << >>
    ELSE IF Len(parts) = 1 THEN parts[1]
    ELSE parts[1] \o sep \o join(sep, Tail(parts))

AWS_PREFIX == <<"a", "w", "s", " ">>
DOT == <<".">>
BANG == <<"!">>
DOT_EDIT == <<".", "e", "d", "i", "t">>
QUIT == <<"q", "u", "i", "t">>
EXIT == <<"e", "x", "i", "t">>

(***************************************************************************)
(* The lines a user submits.                                               *)
(***************************************************************************)
L_quit == QUIT
L_exit_ws == <<" ">> \o EXIT \o <<" ">>
L_edit == DOT_EDIT
L_dot == <<".", "x">>
L_bang == <<"!", "q", "u", "i", "t">>
L_s3 == <<"s", "3", " ", "l", "s">>
CMD_EC2 == <<"e", "c", "2", " ", "d", "e", "s", "c", "r", "i", "b", "e", "-", "i", "n", "s", "t", "a", "n", "c", "e", "s">>

Lines == {L_quit, L_exit_ws, L_edit, L_dot, L_bang, L_s3}

InitialHistories == { << >>, <<CMD_EC2, L_s3>> }

Settings == {"enable_vi_bindings", "show_completion_columns", "show_help"}

LoadedConfigs ==
    { [match_fuzzy |-> TRUE, enable_vi_bindings |-> FALSE,
       show_completion_columns |-> FALSE, show_help |-> TRUE] }

(***************************************************************************)
(* Events of a step.                                                       *)
(***************************************************************************)
Ev(e, id) == [e |-> e, id |-> id]
Has(e) == \E i \in DOMAIN ev : ev[i].e = e
Count(e) == Cardinality({i \in DOMAIN ev : ev[i].e = e})

(***************************************************************************)
(* Interface construction.                                                 *)
(***************************************************************************)
NoCli == [id |-> 0, columns |-> FALSE, vi |-> FALSE, help |-> FALSE, km |-> 0,
          clidocs |-> EmptyText]

\* KeyManager(...): the key bindings are built from the accessors' values
KeyManagerViMode(cfg) == cfg.enable_vi_bindings

\* create_default_layout(self, ...): the help container is laid out from show_help()
LayoutShowsHelp(cfg) == cfg.show_help

\* create_application: a new KeyManager is stored on the engine and its
\* registry goes into the new Application
create_application(display_completions_in_columns, cfg, n) ==
    [id |-> n, columns |-> display_completions_in_columns,
     vi |-> KeyManagerViMode(cfg), help |-> LayoutShowsHelp(cfg), km |-> n,
     clidocs |-> EmptyText]

create_cli_interface(display_completions_in_columns, cfg, n) ==
    create_application(display_completions_in_columns, cfg, n)

\* Variants of the `cli` property with a fault seeded: one that ignores
\* refresh_cli, one that updates the held instance instead of replacing it
cli_ignores_refresh(c, km, r, cfg, n) ==
    IF c.id = 0
    THEN LET new == create_cli_interface(cfg.show_completion_columns, cfg, n + 1) IN
         [cli |-> new, km |-> new.km, refresh |-> FALSE, builds |-> n + 1,
          ev |-> <<Ev("build", new.id)>>]
    ELSE [cli |-> c, km |-> km, refresh |-> r, builds |-> n, ev |-> << >>]

cli_mutates_in_place(c, km, r, cfg, n) ==
    IF c.id = 0
    THEN LET new == create_cli_interface(cfg.show_completion_columns, cfg, n + 1) IN
         [cli |-> new, km |-> new.km, refresh |-> FALSE, builds |-> n + 1,
          ev |-> <<Ev("build", new.id)>>]
    ELSE IF r
    THEN [cli |-> [c EXCEPT !.columns = cfg.show_completion_columns,
                            !.vi = KeyManagerViMode(cfg),
                            !.help = LayoutShowsHelp(cfg)],
          km |-> km, refresh |-> FALSE, builds |-> n, ev |-> << >>]
    ELSE [cli |-> c, km |-> km, refresh |-> r, builds |-> n, ev |-> << >>]

\* The `cli` property: what self holds after evaluating self.cli
\* Variant: the instance is rebuilt but refresh_cli is left as it was
cli_keeps_flag(c, km, r, cfg, n) ==
    IF c.id = 0 \/ r
    THEN LET new == create_cli_interface(cfg.show_completion_columns, cfg, n + 1) IN
         [cli |-> new, km |-> new.km, refresh |-> r, builds |-> n + 1,
          ev |-> <<Ev("build", new.id)>>]
    ELSE [cli |-> c, km |-> km, refresh |-> r, builds |-> n, ev |-> << >>]

cli(c, km, r, cfg, n) ==
    IF c.id = 0 \/ r
    THEN LET new == create_cli_interface(cfg.show_completion_columns, cfg, n + 1) IN
         [cli |-> new, km |-> new.km, refresh |-> FALSE, builds |-> n + 1,
          ev |-> <<Ev("build", new.id)>>]
    ELSE [cli |-> c, km |-> km, refresh |-> r, builds |-> n, ev |-> << >>]

BuiltFrom(c) ==
    [enable_vi_bindings |-> c.vi, show_completion_columns |-> c.columns,
     show_help |-> c.help]

(***************************************************************************)
(* Construction: __init__ and _init_config.                                *)
(***************************************************************************)
NoProc == [kind |-> "none", cmd |-> EmptyText]
NoFile == [exists |-> FALSE, body |-> EmptyText]
Unbound == [bound |-> FALSE, val |-> EmptyText]
NoPending == [name |-> "none", value |-> FALSE, old |-> 0]

Init ==
    /\ pc = "loop"
    /\ exc = "none"
    /\ cause = "none"
    /\ config_section \in LoadedConfigs
    /\ config_file = config_section
    /\ model_completer = config_section.match_fuzzy
    /\ cli_obj = NoCli
    /\ key_manager = 0
    /\ refresh_cli = FALSE
    /\ builds = 0
    /\ history \in InitialHistories
    /\ text = EmptyText
    /\ all_commands = Unbound
    /\ tmpfile = NoFile
    /\ proc = NoProc
    /\ current_docs = EmptyText
    /\ plain_written = {}
    /\ pending = NoPending
    /\ lines_read = 0
    /\ ev = << >>

(***************************************************************************)
(* run(): the top of the loop evaluates self.cli and blocks in cli.run().  *)
(* A session is followed for MaxLines submitted lines: after the last one  *)
(* the loop is not entered again.  cli.run() starts on a reset buffer.     *)
(***************************************************************************)
AcquireCli ==
    /\ pc = "loop"
    /\ lines_read < MaxLines
    /\ LET got == cli(cli_obj, key_manager, refresh_cli, config_section, builds) IN
        /\ cli_obj' = got.cli
        /\ key_manager' = got.km
        /\ refresh_cli' = got.refresh
        /\ builds' = got.builds
        /\ ev' = got.ev \o <<Ev("run", got.cli.id)>>
    /\ pc' = "reading"
    /\ pending' = NoPending
    /\ UNCHANGED <<exc, cause, config_section, config_file, model_completer, history,
                   text, all_commands, tmpfile, proc, current_docs, plain_written,
                   lines_read>>

(***************************************************************************)
(* run(): a line is accepted.  The buffer (create_buffer: history=history, *)
(* accept_action=RETURN_DOCUMENT) appends it to the history and cli.run()  *)
(* returns it; the else branch classifies and dispatches it, up to the     *)
(* point where run() returns, fails, or blocks in p.communicate().         *)
(***************************************************************************)
AppendToHistory(h, line) == Append(h, line)

\* text.strip() in ['quit', 'exit']
is_quit(t) == strip(t) \in {QUIT, EXIT}

\* ['aws ' + h for h in list(self.history) if not h.startswith(('.', '!'))]
\* aws_commands with a fault seeded: only '.' entries are left out
RECURSIVE aws_commands_keeps_bang(_)
aws_commands_keeps_bang(h) ==
    IF h = << >> THEN << >>
    ELSE IF ~startswith(Head(h), DOT)
         THEN <<AWS_PREFIX \o Head(h)>> \o aws_commands_keeps_bang(Tail(h))
         ELSE aws_commands_keeps_bang(Tail(h))

RECURSIVE aws_commands(_)
aws_commands(h) ==
    IF h = << >> THEN << >>
    ELSE IF ~(startswith(Head(h), DOT) \/ startswith(Head(h), BANG))
         THEN <<AWS_PREFIX \o Head(h)>> \o aws_commands(Tail(h))
         ELSE aws_commands(Tail(h))

\* '\n'.join([...])
edit_script(h) == join(<<"\n">>, aws_commands(h))

\* the local all_commands after the `if text.startswith('.edit')` statement
bind_all_commands(t, h, old) ==
    IF startswith(t, DOT_EDIT) THEN [bound |-> TRUE, val |-> edit_script(h)] ELSE old

\* full_cmd with a fault seeded: the '!' is not cut off
full_cmd_keeps_bang(t) == IF startswith(t, BANG) THEN t ELSE AWS_PREFIX \o t

\* full_cmd of the else branch
full_cmd(t) == IF startswith(t, BANG) THEN slice_from_1(t) ELSE AWS_PREFIX \o t

\* SubmitQuit with a fault seeded: the quit path writes the configuration too
SubmitQuit_writes_config(line) ==
    /\ is_quit(line)
    /\ pc' = "returned"
    /\ cause' = "quit"
    /\ config_file' = config_section
    /\ ev' = <<Ev("submit", cli_obj.id), Ev("config_write", 0), Ev("break", 0)>>
    /\ UNCHANGED <<exc, config_section, model_completer, cli_obj,
                   key_manager, refresh_cli, builds, all_commands, tmpfile, proc,
                   current_docs>>

SubmitQuit(line) ==
    /\ is_quit(line)
    /\ pc' = "returned"
    /\ cause' = "quit"
    /\ ev' = <<Ev("submit", cli_obj.id), Ev("break", 0)>>
    /\ UNCHANGED <<exc, config_section, config_file, model_completer, cli_obj,
                   key_manager, refresh_cli, builds, all_commands, tmpfile, proc,
                   current_docs>>

SubmitSpecial(line) ==
    /\ ~is_quit(line)
    /\ startswith(line, DOT)
    /\ LET ac == bind_all_commands(line, history', all_commands) IN
        /\ all_commands' = ac
        /\ IF ac.bound
           THEN /\ tmpfile' = [exists |-> TRUE, body |-> ac.val]
                /\ proc' = [kind |-> "vim", cmd |-> EmptyText]
                /\ pc' = "waiting"
                /\ exc' = "none"
                /\ ev' = <<Ev("submit", cli_obj.id), Ev("tmpfile_write", 0),
                           Ev("popen", 0)>>
           ELSE \* f.write(all_commands) reads a local that was never assigned
                /\ tmpfile' = NoFile
                /\ proc' = NoProc
                /\ pc' = "crashed"
                /\ exc' = "UnboundLocalError"
                /\ ev' = <<Ev("submit", cli_obj.id), Ev("uncaught", 0)>>
    /\ UNCHANGED <<cause, config_section, config_file, model_completer, cli_obj,
                   key_manager, refresh_cli, builds, current_docs>>

\* Variant: the child is started but not waited for
SubmitCommand_no_wait(line) ==
    /\ ~is_quit(line)
    /\ ~startswith(line, DOT)
    /\ LET got == cli(cli_obj, key_manager, refresh_cli, config_section, builds) IN
        /\ current_docs' = EmptyText
        /\ cli_obj' = [got.cli EXCEPT !.clidocs = EmptyText]
        /\ key_manager' = got.km
        /\ refresh_cli' = got.refresh
        /\ builds' = got.builds
        /\ ev' = <<Ev("submit", cli_obj.id), Ev("docs_clear", 0)>> \o got.ev
                 \o <<Ev("clidocs_reset", got.cli.id), Ev("redraw", got.cli.id),
                      Ev("popen", 0)>>
    /\ proc' = [kind |-> "shell", cmd |-> full_cmd(line)]
    /\ pc' = "reading"
    /\ UNCHANGED <<exc, cause, config_section, config_file, model_completer,
                   all_commands, tmpfile>>

\* Variant: the child is started with the panel left as it is
SubmitCommand_keeps_docs(line) ==
    /\ ~is_quit(line)
    /\ ~startswith(line, DOT)
    /\ LET got == cli(cli_obj, key_manager, refresh_cli, config_section, builds) IN
        /\ current_docs' = current_docs
        /\ cli_obj' = got.cli
        /\ key_manager' = got.km
        /\ refresh_cli' = got.refresh
        /\ builds' = got.builds
        /\ ev' = <<Ev("submit", cli_obj.id)>> \o got.ev
                 \o <<Ev("redraw", got.cli.id), Ev("popen", 0)>>
    /\ proc' = [kind |-> "shell", cmd |-> full_cmd(line)]
    /\ pc' = "waiting"
    /\ UNCHANGED <<exc, cause, config_section, config_file, model_completer,
                   all_commands, tmpfile>>

SubmitCommand(line) ==
    /\ ~is_quit(line)
    /\ ~startswith(line, DOT)
    /\ LET got == cli(cli_obj, key_manager, refresh_cli, config_section, builds) IN
        /\ current_docs' = EmptyText
        /\ cli_obj' = [got.cli EXCEPT !.clidocs = EmptyText]
        /\ key_manager' = got.km
        /\ refresh_cli' = got.refresh
        /\ builds' = got.builds
        /\ ev' = <<Ev("submit", cli_obj.id), Ev("docs_clear", 0)>> \o got.ev
                 \o <<Ev("clidocs_reset", got.cli.id), Ev("redraw", got.cli.id),
                      Ev("popen", 0)>>
    /\ proc' = [kind |-> "shell", cmd |-> full_cmd(line)]
    /\ pc' = "waiting"
    /\ UNCHANGED <<exc, cause, config_section, config_file, model_completer,
                   all_commands, tmpfile>>

Submit ==
    /\ pc = "reading"
    /\ lines_read < MaxLines
    /\ lines_read' = lines_read + 1
    /\ UNCHANGED <<plain_written, pending>>
    /\ \E line \in Lines :
        /\ history' = AppendToHistory(history, line)
        /\ text' = line
        /\ \/ SubmitQuit(line)
           \/ SubmitSpecial(line)
           \/ SubmitCommand(line)

\* p.communicate() returns; leaving the with block removes the temporary file
ChildExit ==
    /\ pc = "waiting"
    /\ proc' = NoProc
    /\ tmpfile' = NoFile
    /\ pc' = "loop"
    /\ ev' = <<Ev("child_exit", 0)>>
    /\ UNCHANGED <<exc, cause, config_section, config_file, model_completer, cli_obj,
                   key_manager, refresh_cli, builds, history, text, all_commands,
                   current_docs, plain_written, pending, lines_read>>

(***************************************************************************)
(* End of input and interrupt.  cli.run() raises EOFError or               *)
(* KeyboardInterrupt (on_exit, on_abort = RAISE_EXCEPTION) inside the try; *)
(* p.communicate() is in the else clause, which no except clause covers.   *)
(***************************************************************************)
Signals == {"KeyboardInterrupt", "EOFError"}

SignalWhileReading ==
    /\ pc = "reading"
    /\ \E sig \in Signals :
        ev' = <<Ev("signal", 0), Ev("config_write", 0), Ev("break", 0)>>
    /\ config_file' = config_section
    /\ pc' = "returned"
    /\ cause' = "signal"
    /\ UNCHANGED <<exc, config_section, model_completer, cli_obj, key_manager,
                   refresh_cli, builds, history, text, all_commands, tmpfile, proc,
                   current_docs, plain_written, pending, lines_read>>

SignalWhileWaiting ==
    /\ pc = "waiting"
    /\ exc' = "KeyboardInterrupt"
    /\ pc' = "crashed"
    /\ tmpfile' = NoFile
    /\ ev' = <<Ev("signal", 0), Ev("uncaught", 0)>>
    /\ UNCHANGED <<cause, config_section, config_file, model_completer, cli_obj,
                   key_manager, refresh_cli, builds, history, text, all_commands,
                   proc, current_docs, plain_written, pending, lines_read>>

(***************************************************************************)
(* The setting accessors, called by key bindings while cli.run() reads.    *)
(***************************************************************************)
\* stop_input_and_refresh_cli with a fault seeded: refresh_cli is not set
stop_input_without_refresh(c, km, cfg, n) ==
    LET got == cli(c, km, FALSE, cfg, n) IN
    [cli |-> got.cli, km |-> got.km, refresh |-> got.refresh, builds |-> got.builds,
     raised |-> TRUE,
     ev |-> got.ev \o <<Ev("redraw", got.cli.id), Ev("raise", 0)>>]

\* stop_input_and_refresh_cli: what self holds when InputInterrupt is raised
stop_input_and_refresh_cli(c, km, cfg, n) ==
    LET got == cli(c, km, TRUE, cfg, n) IN
    [cli |-> got.cli, km |-> got.km, refresh |-> got.refresh, builds |-> got.builds,
     raised |-> TRUE,
     ev |-> <<Ev("set_refresh", 0)>> \o got.ev
            \o <<Ev("redraw", got.cli.id), Ev("raise", 0)>>]

\* the body shared by enable_vi_bindings, show_completion_columns and show_help
\* when the value is not None
SetSetting(name, value, refresh_ui) ==
    /\ pc = "reading"
    /\ config_section' = [config_section EXCEPT ![name] = value]
    /\ IF refresh_ui
       THEN /\ builds < MaxBuilds
            /\ LET s == stop_input_and_refresh_cli(cli_obj, key_manager,
                                                   config_section', builds) IN
                /\ cli_obj' = s.cli
                /\ key_manager' = s.km
                /\ refresh_cli' = s.refresh
                /\ builds' = s.builds
                /\ ev' = s.ev
                /\ exc' = IF s.raised THEN "InputInterrupt" ELSE exc
                /\ pc' = IF s.raised THEN "raised" ELSE pc
            /\ plain_written' = {}
            /\ pending' = [name |-> name, value |-> value, old |-> cli_obj.id]
       ELSE /\ builds + Cardinality(plain_written \cup {name}) <= MaxBuilds
            /\ plain_written' = plain_written \cup {name}
            /\ ev' = << >>
            /\ UNCHANGED <<pc, exc, cli_obj, key_manager, refresh_cli, builds, pending>>
    /\ UNCHANGED <<cause, config_file, model_completer, history, text, all_commands,
                   tmpfile, proc, current_docs, lines_read>>

\* An accessor called without a value, and what it gave back
Asked(name, refresh_ui) == [e |-> "get", id |-> 0, name |-> name, refresh_ui |-> refresh_ui]
Returned(value) == [e |-> "return", id |-> 0, value |-> value]

\* Variant: the refresh_ui branch is taken although no value was given
GetSetting_refreshes(name, refresh_ui) ==
    /\ pc = "reading"
    /\ IF refresh_ui
       THEN /\ builds < MaxBuilds
            /\ LET s == stop_input_and_refresh_cli(cli_obj, key_manager,
                                                   config_section, builds) IN
                /\ cli_obj' = s.cli
                /\ key_manager' = s.km
                /\ refresh_cli' = s.refresh
                /\ builds' = s.builds
                /\ ev' = <<Asked(name, refresh_ui)>> \o s.ev
                /\ exc' = "InputInterrupt"
                /\ pc' = "raised"
       ELSE /\ ev' = <<Asked(name, refresh_ui), Returned(config_section[name])>>
            /\ UNCHANGED <<pc, exc, cli_obj, key_manager, refresh_cli, builds>>
    /\ UNCHANGED <<cause, config_section, config_file, model_completer, history, text,
                   all_commands, tmpfile, proc, current_docs, plain_written, pending,
                   lines_read>>

\* the body shared by the four accessors when the value is None: the test
\* `if <value> is not None` fails and config_section.as_bool(<name>) is returned
GetSetting(name, refresh_ui) ==
    /\ pc = "reading"
    /\ ev' = <<Asked(name, refresh_ui), Returned(config_section[name])>>
    /\ UNCHANGED <<pc, exc, cause, config_section, config_file, model_completer,
                   cli_obj, key_manager, refresh_cli, builds, history, text,
                   all_commands, tmpfile, proc, current_docs, plain_written, pending,
                   lines_read>>

enable_vi_bindings ==
    \/ \E value \in BOOLEAN, refresh_ui \in BOOLEAN :
        SetSetting("enable_vi_bindings", value, refresh_ui)
    \/ \E refresh_ui \in BOOLEAN : GetSetting("enable_vi_bindings", refresh_ui)

show_completion_columns ==
    \/ \E value \in BOOLEAN, refresh_ui \in BOOLEAN :
        SetSetting("show_completion_columns", value, refresh_ui)
    \/ \E refresh_ui \in BOOLEAN : GetSetting("show_completion_columns", refresh_ui)

show_help ==
    \/ \E value \in BOOLEAN, refresh_ui \in BOOLEAN :
        SetSetting("show_help", value, refresh_ui)
    \/ \E refresh_ui \in BOOLEAN : GetSetting("show_help", refresh_ui)

\* Variant: the value is stored in the configuration only
match_fuzzy_config_only ==
    \/ /\ pc = "reading"
       /\ \E value \in BOOLEAN :
           config_section' = [config_section EXCEPT !.match_fuzzy = value]
       /\ ev' = << >>
       /\ UNCHANGED <<pc, exc, cause, config_file, model_completer, cli_obj,
                      key_manager, refresh_cli, builds, history, text, all_commands,
                      tmpfile, proc, current_docs, plain_written, pending, lines_read>>
    \/ GetSetting("match_fuzzy", FALSE)

match_fuzzy ==
    \/ /\ pc = "reading"
       /\ \E value \in BOOLEAN :
           /\ model_completer' = value
           /\ config_section' = [config_section EXCEPT !.match_fuzzy = value]
       /\ ev' = << >>
       /\ UNCHANGED <<pc, exc, cause, config_file, cli_obj, key_manager, refresh_cli,
                      builds, history, text, all_commands, tmpfile, proc, current_docs,
                      plain_written, pending, lines_read>>
    \/ GetSetting("match_fuzzy", FALSE)

\* CatchInputInterrupt with a fault seeded: the handler leaves the loop
CatchInputInterrupt_breaks ==
    /\ pc = "raised"
    /\ exc = "InputInterrupt"
    /\ exc' = "none"
    /\ pc' = "returned"
    /\ ev' = <<Ev("catch", 0), Ev("break", 0)>>
    /\ UNCHANGED <<cause, config_section, config_file, model_completer, cli_obj,
                   key_manager, refresh_cli, builds, history, text, all_commands,
                   tmpfile, proc, current_docs, plain_written, pending, lines_read>>

\* run(): except InputInterrupt: pass
CatchInputInterrupt ==
    /\ pc = "raised"
    /\ exc = "InputInterrupt"
    /\ exc' = "none"
    /\ pc' = "loop"
    /\ ev' = <<Ev("catch", 0)>>
    /\ UNCHANGED <<cause, config_section, config_file, model_completer, cli_obj,
                   key_manager, refresh_cli, builds, history, text, all_commands,
                   tmpfile, proc, current_docs, plain_written, pending, lines_read>>

(***************************************************************************)
(* on_input_timeout.  The buffer text and what the completer reports are   *)
(* the environment's.                                                      *)
(***************************************************************************)
OPT_FILTERS == <<"-", "-", "f", "i", "l", "t", "e", "r", "s">>
BufferTexts == {EmptyText, <<" ">>, CMD_EC2 \o <<" ">> \o <<"-", "-", "f", "i", "l", "t">>}
Commands == {CMD_EC2}
LastOptions == {EmptyText, OPT_FILTERS}

\* .encode('utf-8') of text whose characters are all ASCII
encode_utf8(s) == s

\* Variant: the command text as the completer reports it
key_name_as_reported(command) == encode_utf8(command)

\* key_name = '.'.join(command.split()).encode('utf-8')
key_name(command) == encode_utf8(join(DOT, split(command)))

\* The documentation provider returns some text for what it is asked
extract_param(key, option) == <<"P", ":">> \o key \o <<":">> \o option
extract_description(key) == <<"D", ":">> \o key

\* What the handler was called with: the instance and its input buffer
Called(id, buffer_text) == [e |-> "timeout", id |-> id, buffer |-> buffer_text]

\* What the completer reported when the handler read it
Reported(command, last_option) ==
    [e |-> "completer", id |-> 0, command |-> command, option |-> last_option]

\* The provider calls made for a buffer: none when it strips to nothing
docs_calls(buffer_text, last_option) ==
    IF strip(buffer_text) # EmptyText
    THEN IF last_option # EmptyText
         THEN <<Ev("extract_param", 0)>>
         ELSE <<Ev("extract_description", 0)>>
    ELSE << >>

\* Variant: decides on the raw buffer text
docs_for_no_strip(buffer_text, command, last_option) ==
    IF buffer_text # EmptyText
    THEN IF last_option # EmptyText
         THEN extract_param(key_name(command), last_option)
         ELSE extract_description(key_name(command))
    ELSE EmptyText

\* self.current_docs after the if/else on text.strip()
docs_for(buffer_text, command, last_option) ==
    IF strip(buffer_text) # EmptyText
    THEN IF last_option # EmptyText
         THEN extract_param(key_name(command), last_option)
         ELSE extract_description(key_name(command))
    ELSE EmptyText

\* Lines 276-293: recompute the panel text, reset the panel buffer, redraw
update_docs(buffer_text, command, last_option) ==
    /\ current_docs' = docs_for(buffer_text, command, last_option)
    /\ cli_obj' = [cli_obj EXCEPT !.clidocs = current_docs']
    /\ ev' = <<Called(cli_obj.id, buffer_text), Reported(command, last_option)>>
             \o docs_calls(buffer_text, last_option)
             \o <<Ev("clidocs_reset", cli_obj.id), Ev("redraw", cli_obj.id)>>

\* Variant: recomputes whatever show_help says
on_input_timeout_ignores_help ==
    /\ pc = "reading"
    /\ \E buffer_text \in BufferTexts, command \in Commands, last_option \in LastOptions :
        update_docs(buffer_text, command, last_option)
    /\ UNCHANGED <<pc, exc, cause, config_section, config_file, model_completer,
                   key_manager, refresh_cli, builds, history, text, all_commands,
                   tmpfile, proc, plain_written, pending, lines_read>>

on_input_timeout ==
    /\ pc = "reading"
    /\ \E buffer_text \in BufferTexts, command \in Commands, last_option \in LastOptions :
        IF ~config_section.show_help
        THEN /\ ev' = <<Called(cli_obj.id, buffer_text)>>
             /\ UNCHANGED <<current_docs, cli_obj>>
        ELSE update_docs(buffer_text, command, last_option)
    /\ UNCHANGED <<pc, exc, cause, config_section, config_file, model_completer,
                   key_manager, refresh_cli, builds, history, text, all_commands,
                   tmpfile, proc, plain_written, pending, lines_read>>

Next ==
    \/ AcquireCli
    \/ Submit
    \/ ChildExit
    \/ SignalWhileReading
    \/ SignalWhileWaiting
    \/ show_completion_columns
    \/ enable_vi_bindings
    \/ show_help
    \/ match_fuzzy
    \/ CatchInputInterrupt
    \/ on_input_timeout

Spec == Init /\ [][Next]_vars

(***************************************************************************)
(* Properties.                                                             *)
(***************************************************************************)
Terminated == pc \in {"returned", "crashed"}
JustSubmitted == Has("submit")
SettingsOf(cfg) == [s \in Settings |-> cfg[s]]

\* C1: every accessor call with a new value and refresh_ui raises exactly one
\* InputInterrupt; until the interface has been obtained again no line is read
\* or dispatched; and the instance the next line is read from is another one
\* than the one that was live, built from the value written.
C1_ToggleRebuildsBeforeNextRead ==
    /\ [](pending # NoPending => pc \in {"raised", "loop"})
    /\ [][(pending = NoPending /\ pending' # NoPending)
            => (pc' = "raised" /\ exc' = "InputInterrupt" /\ (Count("raise") = 1)')]_vars
    /\ [][pending # NoPending
            => (/\ lines_read' = lines_read
                /\ history' = history
                /\ proc' = proc
                /\ ~(Has("popen"))'
                /\ pc' \in {"loop", "reading"})]_vars
    /\ [][(pending # NoPending /\ pc' = "reading")
            => (/\ cli_obj'.id # pending.old
                /\ cli_obj'.id = builds'
                /\ BuiltFrom(cli_obj')[pending.name] = pending.value
                /\ config_section'[pending.name] = pending.value)]_vars

C1_Witness ==
    /\ pc = "reading"
    /\ builds = 2
    /\ cli_obj.columns
    /\ config_section.show_completion_columns
    /\ ~refresh_cli

\* C2: when run() catches InputInterrupt nothing is dispatched for that read: no
\* subprocess, no temporary file, the documentation content and the panel are
\* left alone, the loop does not exit, and the next thing run() does is read.
C2_CatchDispatchesNothing ==
    /\ [][pc = "raised"
            => (/\ pc' = "loop"
                /\ proc' = proc
                /\ tmpfile' = tmpfile
                /\ current_docs' = current_docs
                /\ cli_obj'.clidocs = cli_obj.clidocs
                /\ history' = history
                /\ text' = text
                /\ cause' = cause
                /\ config_file' = config_file
                /\ ~(Has("popen"))'
                /\ ~(Has("tmpfile_write"))'
                /\ ~(Has("break"))')]_vars
    /\ [][(pc = "loop" /\ Has("catch")) => pc' = "reading"]_vars

C2_Witness == pc = "loop" /\ Has("catch") /\ lines_read > 0

\* C3: a submitted line ends the run() loop if and only if, trimmed, it is quit
\* or exit; every other submitted line is dispatched and run() reads again.
C3_QuitIffLoopEnds ==
    JustSubmitted =>
        /\ Terminated <=> strip(text) \in {QUIT, EXIT}
        /\ strip(text) \notin {QUIT, EXIT} => pc = "waiting"

\* C4: an end-of-input or interrupt signal, whenever it arrives, makes the engine
\* persist the configuration and return.
C4_SignalPersistsThenReturns ==
    Has("signal") =>
        /\ pc = "returned"
        /\ Has("config_write")
        /\ config_file = config_section
        /\ exc = "none"

\* C5: the persisted store is written only on the end-of-input/interrupt exit:
\* no other step writes it, and after quit/exit it still holds what was loaded.
C5_StoreWrittenOnlyOnSignalExit ==
    /\ [][(config_file' # config_file \/ (Has("config_write"))')
            => (pc = "reading" /\ pc' = "returned" /\ cause' = "signal"
                /\ (Has("signal"))')]_vars
    /\ [](cause # "signal" => (config_file \in LoadedConfigs /\ ~Has("config_write")))

C5_Witness ==
    /\ pc = "returned"
    /\ cause = "quit"
    /\ config_section.show_help # config_file.show_help

\* C6 as stated: for every submitted line that starts with `!` the command run
\* is the rest of the line, and for every submitted line that starts with
\* neither `!` nor `.` it is `aws `, then the line.
ExpectedCommand(t) ==
    IF t # << >> /\ t[1] = "!" THEN SubSeq(t, 2, Len(t)) ELSE <<"a", "w", "s", " ">> \o t

C6_EveryLineRunsItsCommand ==
    (JustSubmitted /\ ~(text # << >> /\ text[1] = "."))
        => (proc.kind = "shell" /\ proc.cmd = ExpectedCommand(text))

\* C6 amended: the same, for every submitted line that is not quit or exit once
\* trimmed (such a line ends the loop and runs nothing).
C6_DispatchedLineRunsItsCommand ==
    (JustSubmitted /\ ~(text # << >> /\ text[1] = ".") /\ strip(text) \notin {QUIT, EXIT})
        => (pc = "waiting" /\ proc.kind = "shell" /\ proc.cmd = ExpectedCommand(text))

C6_Witness ==
    /\ JustSubmitted
    /\ text = L_bang
    /\ proc = [kind |-> "shell", cmd |-> <<"q", "u", "i", "t">>]

\* C7: dispatching .edit writes to the temporary file the history entries that
\* start with neither `.` nor `!`, each with `aws ` in front, in history order,
\* joined by newlines with none at the end, and then waits for the editor.
Kept(h) == SelectSeq(h, LAMBDA e : e = << >> \/ e[1] \notin {".", "!"})

RECURSIVE ScriptOf(_)
ScriptOf(k) ==
    IF k = << >> THEN << >>
    ELSE IF Len(k) = 1 THEN <<"a", "w", "s", " ">> \o k[1]
    ELSE ScriptOf(SubSeq(k, 1, Len(k) - 1)) \o <<"\n">> \o <<"a", "w", "s", " ">>
         \o k[Len(k)]

EditPosition(e) == CHOOSE i \in DOMAIN ev : ev[i].e = e

C7_EditWritesHistoryScript ==
    /\ [](JustSubmitted /\ text = L_edit
            => (/\ tmpfile = [exists |-> TRUE, body |-> ScriptOf(Kept(history))]
                /\ proc.kind = "vim"
                /\ pc = "waiting"
                /\ Has("tmpfile_write") /\ Has("popen")
                /\ EditPosition("tmpfile_write") < EditPosition("popen")))
    /\ [](history = <<CMD_EC2, L_s3, L_bang, L_edit>> /\ JustSubmitted
            => tmpfile.body = <<"a", "w", "s", " ", "e", "c", "2", " ", "d", "e", "s", "c", "r", "i", "b", "e", "-", "i", "n", "s", "t", "a", "n", "c", "e", "s", "\n", "a", "w", "s", " ", "s", "3", " ", "l", "s">>)
    /\ [][(pc = "waiting" /\ proc.kind = "vim")
            => (/\ lines_read' = lines_read
                /\ history' = history
                /\ pc' = "loop" => (Has("child_exit"))'
                /\ pc' # "reading")]_vars

C7_Witness ==
    /\ JustSubmitted
    /\ history = <<CMD_EC2, L_s3, L_bang, L_edit>>
    /\ pc = "waiting"
    /\ tmpfile.body = <<"a", "w", "s", " ", "e", "c", "2", " ", "d", "e", "s", "c", "r", "i", "b", "e", "-", "i", "n", "s", "t", "a", "n", "c", "e", "s", "\n", "a", "w", "s", " ", "s", "3", " ", "l", "s">>

\* C8: a submitted line that starts with `.` and is not .edit does nothing: no
\* subprocess, no temporary file, no error, and run() goes back to reading.
C8_OtherSpecialIsNoOp ==
    (JustSubmitted /\ startswith(text, DOT) /\ ~startswith(text, DOT_EDIT))
        => (/\ pc \notin {"crashed", "waiting"}
            /\ exc = "none"
            /\ proc = NoProc
            /\ ~tmpfile.exists
            /\ ~Has("popen")
            /\ ~Has("tmpfile_write"))

\* C9: the engine holds at most one interface instance, the last one built, with
\* its own key manager; a rebuild puts another instance and another key manager
\* in its place, and an instance's settings never change once it is built.
C9_OneInstanceReplacedWholesale ==
    /\ [](cli_obj.id = builds /\ key_manager = cli_obj.km /\ cli_obj.km = cli_obj.id)
    /\ [][cli_obj'.id = cli_obj.id
            => (BuiltFrom(cli_obj') = BuiltFrom(cli_obj) /\ cli_obj'.km = cli_obj.km)]_vars
    /\ [][(pending' # NoPending /\ pending = NoPending)
            => (cli_obj'.id # cli_obj.id /\ key_manager' # key_manager
                /\ builds' = builds + 1)]_vars

C9_Witness == pc = "reading" /\ builds = 2 /\ cli_obj.id = 2 /\ key_manager = 2

\* C10 as stated: whenever a line is read (and dispatched), every setting,
\* however it was written, has the value the live interface was built with.
C10_ReadSeesCurrentSettings ==
    (JustSubmitted /\ pc = "waiting") => BuiltFrom(cli_obj) = SettingsOf(config_section)

\* C10 amended: whenever the engine is reading a line or has just read one, every
\* setting that was not written without refresh_ui since the last write with
\* refresh_ui has the value the live interface was built with.
C10_ReadSeesRefreshedSettings ==
    (pc = "reading" \/ JustSubmitted)
        => \A s \in Settings \ plain_written : BuiltFrom(cli_obj)[s] = config_section[s]

C10_Witness ==
    /\ JustSubmitted
    /\ builds = 2
    /\ pc = "waiting"
    /\ plain_written = {}
    /\ config_section.show_completion_columns
    /\ cli_obj.columns

(***************************************************************************)
(* The idle timeout.                                                       *)
(***************************************************************************)
\* Every variable of the program, the record of the step's effects aside
program_vars ==
    <<pc, exc, cause, config_section, config_file, model_completer, cli_obj,
      key_manager, refresh_cli, builds, history, text, all_commands, tmpfile,
      proc, current_docs>>

\* The last step was the idle timeout handler
TimedOut == Has("timeout")

\* What that handler was called with and what the completer reported to it
TimeoutBuffer == ev[1].buffer
ReportedCommand == ev[2].command
ReportedOption == ev[2].option

\* C11: an idle timeout while show_help is false changes nothing, whatever
\* the input buffer holds: the panel text and the panel buffer keep their
\* values, neither the completer nor the documentation provider is used, and
\* no panel reset or redraw is requested.
C11_HelpOffTimeoutChangesNothing ==
    /\ [](TimedOut /\ ~config_section.show_help => Len(ev) = 1)
    /\ [][TimedOut' /\ ~config_section.show_help => UNCHANGED program_vars]_vars

C11_Witness ==
    /\ TimedOut
    /\ ~config_section.show_help
    /\ strip(TimeoutBuffer) # EmptyText
    /\ current_docs # EmptyText
    /\ cli_obj.clidocs # EmptyText

\* The last step was a timeout that recomputed the panel for typed text
RecomputedForText ==
    /\ TimedOut
    /\ config_section.show_help
    /\ strip(TimeoutBuffer) # EmptyText

\* The words of a command joined by "."
DottedKey(command) == join(<<".">>, split(command))

KEY_EC2 ==
    <<"e", "c", "2", ".", "d", "e", "s", "c", "r", "i", "b", "e", "-",
      "i", "n", "s", "t", "a", "n", "c", "e", "s">>

\* C12 as stated: on an idle timeout with show_help true and a non-empty
\* input buffer, the panel text is extract_param(k, o) when the completer
\* reports a last option o and extract_description(k) when it reports none,
\* the key k being the completer's current_command exactly as reported.
C12_DocsKeyedByReportedCommand ==
    RecomputedForText =>
        /\ current_docs = IF ReportedOption # EmptyText
                          THEN extract_param(ReportedCommand, ReportedOption)
                          ELSE extract_description(ReportedCommand)
        /\ cli_obj.clidocs = current_docs

\* C12 amended: the same, the key k being the words of the completer's
\* current_command joined by "." ("ec2.describe-instances" for
\* "ec2 describe-instances").
C12_DocsKeyedByDottedCommand ==
    RecomputedForText =>
        /\ current_docs = IF ReportedOption # EmptyText
                          THEN extract_param(DottedKey(ReportedCommand), ReportedOption)
                          ELSE extract_description(DottedKey(ReportedCommand))
        /\ cli_obj.clidocs = current_docs
        /\ Count("extract_param") + Count("extract_description") = 1
        /\ Has("extract_param") <=> ReportedOption # EmptyText

C12_Witness ==
    /\ RecomputedForText
    /\ ReportedCommand = CMD_EC2
    /\ ReportedOption = OPT_FILTERS
    /\ current_docs = extract_param(KEY_EC2, OPT_FILTERS)

\* C13: on an idle timeout with show_help true and an input buffer that is
\* empty once trimmed, the panel text becomes empty, whatever it held and
\* whatever the completer reports; the documentation provider is not asked,
\* and the panel buffer is reset to the empty text.
C13_EmptyBufferClearsPanel ==
    TimedOut /\ config_section.show_help /\ strip(TimeoutBuffer) = EmptyText =>
        /\ current_docs = EmptyText
        /\ cli_obj.clidocs = EmptyText
        /\ ~Has("extract_param")
        /\ ~Has("extract_description")
        /\ Has("clidocs_reset")

C13_Witness ==
    /\ TimedOut
    /\ config_section.show_help
    /\ TimeoutBuffer = <<" ">>
    /\ ReportedCommand = CMD_EC2
    /\ ReportedOption = OPT_FILTERS
    /\ current_docs = EmptyText

(***************************************************************************)
(* The setting accessors.                                                  *)
(***************************************************************************)
\* The last step was an accessor called without a new value
ReadSetting == Has("get")

\* C14: an accessor called without a new value is a pure read: it returns
\* the value the configuration holds and changes nothing - no rebuild flag,
\* no redraw, no cancellation, no new instance - also when refresh_ui is
\* passed as true.
C14_AccessorWithoutValueIsPureRead ==
    /\ [](ReadSetting =>
            /\ Len(ev) = 2
            /\ ev[2].e = "return"
            /\ ev[2].value = config_section[ev[1].name]
            /\ pc = "reading"
            /\ ~refresh_cli)
    /\ [][ReadSetting' => UNCHANGED program_vars]_vars

C14_Witness ==
    /\ ReadSetting
    /\ ev[1].name = "show_completion_columns"
    /\ ev[1].refresh_ui
    /\ ev[2].value
    /\ config_section.show_completion_columns
    /\ ~cli_obj.columns
    /\ builds = 1

(***************************************************************************)
(* The panel text while the engine waits for input.                        *)
(***************************************************************************)
\* The input buffer is known to be empty: cli.run() has just started on a
\* reset buffer, or the timeout handler has just read it and found it empty
InputBufferEmpty ==
    \/ Has("run")
    \/ TimedOut /\ TimeoutBuffer = EmptyText

\* C15: whenever the engine waits for input, the panel text is empty if
\* show_help is false or the input buffer is empty, after any sequence of
\* timeouts, toggles, rebuilds and dispatches.
C15_PanelEmptyWhenHelpOffOrNoInput ==
    pc = "reading" /\ (~config_section.show_help \/ InputBufferEmpty) =>
        current_docs = EmptyText

(***************************************************************************)
(* The order of effects inside a toggle and inside a dispatch.             *)
(***************************************************************************)
PositionOf(e) == CHOOSE i \in DOMAIN ev : ev[i].e = e

\* C16: in a toggle called with refresh_ui, the redraw is requested on the
\* instance that was live when the toggle was called, the cancellation is
\* raised after that request, and the replacement instance is not yet
\* constructed when the cancellation is raised: it is constructed once the
\* engine has caught it and looped back.
C16_RedrawStaleThenRaiseThenRebuild ==
    pc = "raised" =>
        /\ Has("redraw") /\ Has("raise")
        /\ PositionOf("redraw") < PositionOf("raise")
        /\ ev[PositionOf("redraw")].id = pending.old
        /\ ~Has("build")
        /\ cli_obj.id = pending.old

\* A launched subprocess has not exited yet
ChildRunning == proc # NoProc

\* C17: while a launched subprocess runs, the cancellation is never raised
\* and no instance is built: between the launch and the child's exit the
\* engine reads no line, handles no accessor call and runs no idle update.
\* A cancellation therefore only discards input that was never submitted:
\* the step that raises it submits nothing and starts nothing.
C17_NothingHandledWhileChildRuns ==
    /\ [](ChildRunning => pc \in {"waiting", "crashed"})
    /\ [](Has("raise") => ~ChildRunning)
    /\ [][ChildRunning =>
            /\ UNCHANGED <<config_section, model_completer, cli_obj, key_manager,
                           refresh_cli, builds, history, text, current_docs,
                           lines_read>>
            /\ ~Has("raise")' /\ ~Has("build")' /\ ~Has("submit")'
            /\ ~TimedOut' /\ ~ReadSetting']_vars
    /\ [][Has("raise")' => UNCHANGED <<history, text, lines_read, proc, tmpfile>>]_vars

C17_Witness ==
    /\ pc = "waiting"
    /\ ChildRunning
    /\ proc.kind = "shell"
    /\ builds = 2
    /\ current_docs = EmptyText

\* C18: for every line dispatched as a shell escape or a passthrough, the
\* panel text is emptied, the panel buffer is reset and a redraw is requested,
\* in that order, before the subprocess is started; when it is started the
\* panel text is empty.
C18_PanelClearedBeforeLaunch ==
    JustSubmitted /\ ~is_quit(text) /\ ~startswith(text, DOT) =>
        /\ Count("docs_clear") = 1 /\ Count("clidocs_reset") = 1
        /\ Count("redraw") = 1 /\ Count("popen") = 1
        /\ PositionOf("docs_clear") < PositionOf("clidocs_reset")
        /\ PositionOf("clidocs_reset") < PositionOf("redraw")
        /\ PositionOf("redraw") < PositionOf("popen")
        /\ ev[PositionOf("clidocs_reset")].id = cli_obj.id
        /\ ev[PositionOf("redraw")].id = cli_obj.id
        /\ current_docs = EmptyText
        /\ cli_obj.clidocs = EmptyText
        /\ ChildRunning

C18_Witness ==
    /\ JustSubmitted
    /\ text = L_bang
    /\ Has("popen")
    /\ proc.kind = "shell"
    /\ config_section.show_help
    /\ current_docs = EmptyText

(***************************************************************************)
(* The fuzzy-matching flag and the rebuild flag.                           *)
(***************************************************************************)
\* C19: after construction and after any match_fuzzy calls the completer's
\* match_fuzzy flag equals the configuration's; a step that changes either
\* raises no cancellation, leaves refresh_cli unset and keeps the instance.
C19_CompleterFollowsMatchFuzzy ==
    /\ [](model_completer = config_section.match_fuzzy)
    /\ [][config_section'.match_fuzzy # config_section.match_fuzzy
          \/ model_completer' # model_completer =>
            /\ UNCHANGED <<pc, exc, refresh_cli, cli_obj, key_manager, builds>>
            /\ ~refresh_cli'
            /\ ~Has("raise")' /\ ~Has("set_refresh")' /\ ~Has("build")']_vars

C19_Witness ==
    /\ pc = "reading"
    /\ ~config_section.match_fuzzy
    /\ ~model_completer
    /\ config_file.match_fuzzy
    /\ builds = 1

\* C20: refresh_cli is false whenever the engine blocks reading a line and
\* whenever a line is being dispatched; a step that sets the flag constructs
\* exactly one instance and leaves the flag cleared, and once an instance
\* exists no other step constructs one.
C20_RefreshFlagCausesOneBuild ==
    /\ [](pc \in {"reading", "waiting"} \/ JustSubmitted => ~refresh_cli)
    /\ [][Has("set_refresh")' =>
            /\ Count("set_refresh")' = 1 /\ Count("build")' = 1
            /\ builds' = builds + 1
            /\ ~refresh_cli']_vars
    /\ [][~Has("set_refresh")' /\ cli_obj.id # 0 =>
            /\ builds' = builds
            /\ cli_obj'.id = cli_obj.id
            /\ ~Has("build")']_vars

C20_Witness ==
    /\ pc = "reading"
    /\ Has("run")
    /\ ~Has("build")
    /\ builds = 2
    /\ cli_obj.id = 2
    /\ ~refresh_cli

====
